---- MODULE Spec2Model ----
(***************************************************************************)
(* Model of sso_aws_helper.py: the AWS CLI config upsert                   *)
(* (AWSProfileManager._update_config_file) and the shell profile merges    *)
(* (AWSSSOManager._setup_bash_profile, _setup_powershell_profile).         *)
(*                                                                         *)
(* Text.  A Python str that the code only tests with strip, startswith,    *)
(* `in` and == is a sequence of tokens (each token a fixed piece of text,  *)
(* no token a prefix of another).  A str that the code splits on a         *)
(* character is a sequence of one-character strings.  A file content is    *)
(* the sequence of its lines, i.e. what '\n'.join would have joined: the   *)
(* empty content "" is the one-line sequence << <<>> >>.                   *)
(***************************************************************************)
EXTENDS Integers, Sequences, FiniteSets, TLC

VARIABLES
    bashrc,         \* ~/.bashrc: NoFile or its content
    bash_prev,      \* ~/.bashrc as it was before the last _setup_bash_profile
    ps_profile,     \* Microsoft.PowerShell_profile.ps1: NoFile or its content
    ps_prev,        \* the PowerShell profile before the last merge
    ps_orig,        \* the PowerShell profile before the first merge
    step,           \* position inside setup_global_profile
    runs,           \* completed calls of setup_global_profile
    config_file,    \* ~/.aws/config: NoFile or a sequence of sections
    config_prev,    \* ~/.aws/config before the last _update_config_file
    sso_start_url,  \* AWSConfig.sso_start_url
    role,           \* the (account_id, role_name) setup_profiles handles
    upserts,        \* completed calls of update_profile
    pc,             \* position of a run of main()
    missing,        \* the setting sso_config.ini lacks: a key, "file" or "none"
    available_roles,\* what get_available_roles returns when it succeeds
    role_idx,       \* index of the role setup_profiles handles next
    profile_names,  \* setup_profiles' profile_names
    pending,        \* the write of a target file that is under way
    faults,         \* failures of the environment so far in the run
    exit_status,    \* "running", "zero" or "nonzero"
    registry,       \* HKCU\Environment\AWS_DEFAULT_PROFILE, or "unset"
    pre,            \* the targets as the run found them
    hist            \* what the run has done so far

vars == <<bashrc, bash_prev, ps_profile, ps_prev, ps_orig, step, runs,
          config_file, config_prev, sso_start_url, role, upserts,
          pc, missing, available_roles, role_idx, profile_names, pending,
          faults,
          exit_status, registry, pre, hist>>

shellVars == <<bashrc, bash_prev, ps_profile, ps_prev, ps_orig, step, runs>>
configVars == <<config_file, config_prev, sso_start_url, role, upserts>>
runVars == <<pc, missing, available_roles, role_idx, profile_names, pending,
          faults,
             exit_status, registry, pre, hist>>

(***************************************************************************)
(* Bounds                                                                  *)
(***************************************************************************)
MaxLines == 4       \* lines of an initial shell profile file
MaxRuns == 2        \* calls of setup_global_profile
MaxNameLen == 3     \* characters of an account id / a role name
MaxUrlLen == 3      \* characters of the configured SSO start URL
MaxUpserts == 2     \* calls of update_profile for the role
MaxRoles == 2       \* roles get_available_roles returns
MaxFaults == 2      \* failures of the environment in one run

EmptyContent == << <<>> >>

\* a path that does not exist, and a file holding a content
NoFile == [exists |-> FALSE, content |-> <<>>]
File(content) == [exists |-> TRUE, content |-> content]

(***************************************************************************)
(* Python str operations on token sequences                                *)
(***************************************************************************)
Whitespace == {" ", "    "}

RECURSIVE lstrip(_)
lstrip(s) ==
    IF s # <<>> /\ Head(s) \in Whitespace THEN lstrip(Tail(s)) ELSE s

RECURSIVE rstrip(_)
rstrip(s) ==
    IF s # <<>> /\ s[Len(s)] \in Whitespace
    THEN rstrip(SubSeq(s, 1, Len(s) - 1))
    ELSE s

strip(s) == rstrip(lstrip(s))

startswith(s, p) == Len(s) >= Len(p) /\ SubSeq(s, 1, Len(p)) = p

endswith(s, p) ==
    Len(s) >= Len(p) /\ SubSeq(s, Len(s) - Len(p) + 1, Len(s)) = p

\* p in s
contains(s, p) ==
    \E i \in 1..(Len(s) - Len(p) + 1) : SubSeq(s, i, i + Len(p) - 1) = p

SetMin(S) == CHOOSE x \in S : \A y \in S : x <= y

\* content.split('\n') if content else []
SplitLines(content) == IF content = EmptyContent THEN <<>> ELSE content

\* '\n'.join(new_lines), as the content open(..., 'w') leaves in the file
JoinLines(new_lines) == IF new_lines = <<>> THEN EmptyContent ELSE new_lines

\* content = "" unless the file exists and is read
ReadContent(file) == IF file.exists THEN file.content ELSE EmptyContent

\* p in '\n'.join(new_lines), for a p that holds no '\n'
InContent(p, new_lines) ==
    \E i \in 1..Len(new_lines) : contains(new_lines[i], p)

(***************************************************************************)
(* _setup_bash_profile                                                     *)
(***************************************************************************)
default_profile == "default"

ExportPrefix == <<"export AWS_DEFAULT_PROFILE=">>

aws_export == ExportPrefix \o <<default_profile>>

clear_aws_alias ==
    <<"alias clear_aws='unset AWS_ACCESS_KEY_ID AWS_SECRET_ACCESS_KEY AWS_SESSION_TOKEN AWS_DEFAULT_PROFILE'">>

LoopInit == [new_lines |-> <<>>, aws_profile_added |-> FALSE,
             clear_aws_added |-> FALSE, blank_line_count |-> 0]

\* the blank-line branch shared by both loops (lines 368-371, 433-436)
BlankStep(st, line) ==
    [st EXCEPT !.blank_line_count = @ + 1,
               !.new_lines = IF st.blank_line_count + 1 <= 1
                             THEN Append(@, line) ELSE @]

\* mutant: every matching line is replaced, none is dropped
BashStepKeepAll(st, line) ==
    IF strip(line) = <<>>
    THEN BlankStep(st, line)
    ELSE IF startswith(strip(line), ExportPrefix)
         THEN [st EXCEPT !.blank_line_count = 0,
                         !.new_lines = Append(@, aws_export),
                         !.aws_profile_added = TRUE]
         ELSE [st EXCEPT !.blank_line_count = 0,
                         !.new_lines = Append(@, line)]

\* mutant: a line that only mentions the export (a comment) counts as one
BashStepContains(st, line) ==
    IF strip(line) = <<>>
    THEN BlankStep(st, line)
    ELSE IF contains(line, ExportPrefix)
         THEN [st EXCEPT !.blank_line_count = 0,
                         !.new_lines = IF st.aws_profile_added
                                       THEN @ ELSE Append(@, aws_export),
                         !.aws_profile_added = TRUE]
         ELSE [st EXCEPT !.blank_line_count = 0,
                         !.new_lines = Append(@, line)]

\* one iteration of `for line in lines` (lines 367-381)
BashStep(st, line) ==
    IF strip(line) = <<>>
    THEN BlankStep(st, line)
    ELSE IF startswith(strip(line), ExportPrefix)
         THEN [st EXCEPT !.blank_line_count = 0,
                         !.new_lines = IF st.aws_profile_added
                                       THEN @ ELSE Append(@, aws_export),
                         !.aws_profile_added = TRUE]
         ELSE [st EXCEPT !.blank_line_count = 0,
                         !.new_lines = Append(@, line)]

RECURSIVE BashLoop(_, _)
BashLoop(st, lines) ==
    IF lines = <<>> THEN st
    ELSE BashLoop(BashStep(st, Head(lines)), Tail(lines))

\* lines 383-388
BashAddExport(st) ==
    IF st.aws_profile_added THEN st.new_lines
    ELSE LET nl == st.new_lines
             spaced == IF nl # <<>> /\ strip(nl[Len(nl)]) # <<>>
                       THEN Append(nl, <<>>) ELSE nl
         IN  Append(spaced, aws_export)

\* lines 390-393
BashAddAlias(new_lines) ==
    IF ~InContent(clear_aws_alias, new_lines)
    THEN Append(new_lines, clear_aws_alias)
    ELSE new_lines

\* the content _setup_bash_profile writes for the file it finds
BashMerge(file) ==
    LET lines == SplitLines(ReadContent(file))
        st == BashLoop(LoopInit, lines)
    IN  JoinLines(BashAddAlias(BashAddExport(st)))

(***************************************************************************)
(* _setup_powershell_profile                                               *)
(***************************************************************************)
EnvName == <<"$env:AWS_DEFAULT_PROFILE">>

FunctionName == <<"function Clear-AWS">>

aws_env == EnvName \o <<" = '", default_profile, "'">>

clear_aws_function ==
    << FunctionName \o <<" {">>,
       <<"    ", "Remove-Item Env:AWS_ACCESS_KEY_ID,Env:AWS_SECRET_ACCESS_KEY,Env:AWS_SESSION_TOKEN -ErrorAction SilentlyContinue">>,
       <<"    ">> \o EnvName \o <<" = '", "default", "'">>,
       <<"    ", "Write-Host \"Cleared AWS environment variables and set default profile\"">>,
       <<"}">> >>

\* one iteration of `for line in lines` (lines 432-449)
PsStep(st, line) ==
    IF strip(line) = <<>>
    THEN BlankStep(st, line)
    ELSE IF contains(line, EnvName)
         THEN [st EXCEPT !.blank_line_count = 0,
                         !.new_lines = IF st.aws_profile_added
                                       THEN @ ELSE Append(@, aws_env),
                         !.aws_profile_added = TRUE]
         ELSE IF contains(line, FunctionName)
              THEN [st EXCEPT !.blank_line_count = 0,
                              !.clear_aws_added = TRUE,
                              !.new_lines = Append(@, line)]
              ELSE [st EXCEPT !.blank_line_count = 0,
                              !.new_lines = Append(@, line)]

RECURSIVE PsLoop(_, _)
PsLoop(st, lines) ==
    IF lines = <<>> THEN st
    ELSE PsLoop(PsStep(st, Head(lines)), Tail(lines))

\* lines 451-456
PsAddEnv(st) ==
    IF st.aws_profile_added THEN st
    ELSE LET nl == st.new_lines
             spaced == IF nl # <<>> /\ strip(nl[Len(nl)]) # <<>>
                       THEN Append(nl, <<>>) ELSE nl
         IN  [st EXCEPT !.new_lines = Append(spaced, aws_env)]

\* lines 458-462
PsAddFunction(st) ==
    IF st.clear_aws_added THEN st.new_lines
    ELSE LET nl == st.new_lines
             spaced == IF nl # <<>> /\ strip(nl[Len(nl)]) # <<>>
                       THEN Append(nl, <<>>) ELSE nl
         IN  spaced \o clear_aws_function

\* the content _setup_powershell_profile writes for the file it finds
PsMerge(file) ==
    LET lines == SplitLines(ReadContent(file))
        st == PsLoop(LoopInit, lines)
    IN  JoinLines(PsAddFunction(PsAddEnv(st)))

(***************************************************************************)
(* setup_global_profile: the Bash merge, then the PowerShell merge         *)
(***************************************************************************)
SetupBashProfile ==
    /\ step = "bash"
    /\ runs < MaxRuns
    /\ bash_prev' = bashrc
    /\ bashrc' = File(BashMerge(bashrc))
    /\ step' = "powershell"
    /\ UNCHANGED <<ps_profile, ps_prev, ps_orig, runs>>
    /\ UNCHANGED configVars
    /\ UNCHANGED runVars

SetupPowershellProfile ==
    /\ step = "powershell"
    /\ ps_prev' = ps_profile
    /\ ps_profile' = File(PsMerge(ps_profile))
    /\ step' = "bash"
    /\ runs' = runs + 1
    /\ UNCHANGED <<bashrc, bash_prev, ps_orig>>
    /\ UNCHANGED configVars
    /\ UNCHANGED runVars

(***************************************************************************)
(* Python str operations on character sequences                            *)
(***************************************************************************)
\* 0 when c does not occur in s
FirstIndex(s, c) ==
    IF \E i \in 1..Len(s) : s[i] = c
    THEN SetMin({ i \in 1..Len(s) : s[i] = c })
    ELSE 0

\* s.split(c, maxsplit); maxsplit = -1 puts no limit, as in s.split(c)
RECURSIVE split(_, _, _)
split(s, c, maxsplit) ==
    LET i == FirstIndex(s, c)
    IN  IF maxsplit = 0 \/ i = 0
        THEN <<s>>
        ELSE <<SubSeq(s, 1, i - 1)>> \o split(SubSeq(s, i + 1, Len(s)), c, maxsplit - 1)

\* s.rstrip(c)
RECURSIVE rstripChar(_, _)
rstripChar(s, c) ==
    IF s # <<>> /\ s[Len(s)] = c
    THEN rstripChar(SubSeq(s, 1, Len(s) - 1), c)
    ELSE s

(***************************************************************************)
(* setup_profiles and _update_config_file                                  *)
(***************************************************************************)
\* f"sso-{account_id}-{role_name}"
ProfileName(account_id, role_name) ==
    <<"s", "s", "o", "-">> \o account_id \o <<"-">> \o role_name

\* profile_name.split('-')[1]
ParseAccountId(profile_name) == split(profile_name, "-", -1)[2]

\* mutant: the role name is taken from an unlimited split
ParseRoleNameNoLimit(profile_name) == split(profile_name, "-", -1)[3]

\* profile_name.split('-', 2)[2]
ParseRoleName(profile_name) == split(profile_name, "-", 2)[3]

\* mutant: the suffix is appended without the endswith test
NormalizeUrlAlways(url) == rstripChar(url, "/") \o <<"/", "#">>

\* lines 153-155
NormalizeUrl(url) ==
    IF ~endswith(url, <<"/", "#">>)
    THEN rstripChar(url, "/") \o <<"/", "#">>
    ELSE url

\* the settings of sso_config.ini that _update_config_file copies
sso_region == <<"us-east-1">>
default_region == <<"eu-west-1">>
output_format == <<"json">>

\* the dict of lines 158-165 and 168-175
SsoSettings(profile_name) ==
    [ sso_start_url |-> NormalizeUrl(sso_start_url),
      sso_region |-> sso_region,
      sso_account_id |-> ParseAccountId(profile_name),
      sso_role_name |-> ParseRoleName(profile_name),
      region |-> default_region,
      output |-> output_format ]

DefaultSection == <<"default">>
ProfileSection(profile_name) == <<"profile ">> \o profile_name

HasSection(config, name) == \E i \in 1..Len(config) : config[i].name = name

\* mutant: the new keys are merged into the keys the section holds
SetSectionMerge(config, name, options) ==
    IF HasSection(config, name)
    THEN [ i \in 1..Len(config) |->
             IF config[i].name = name
             THEN [ name |-> name,
                    options |-> [ k \in DOMAIN config[i].options \cup DOMAIN options |->
                                    IF k \in DOMAIN options
                                    THEN options[k] ELSE config[i].options[k] ] ]
             ELSE config[i] ]
    ELSE Append(config, [name |-> name, options |-> options])

\* config[name] = {...}: a section of that name is emptied and refilled where
\* it stands, a new section goes to the end
SetSection(config, name, options) ==
    IF HasSection(config, name)
    THEN [ i \in 1..Len(config) |->
             IF config[i].name = name
             THEN [name |-> name, options |-> options]
             ELSE config[i] ]
    ELSE Append(config, [name |-> name, options |-> options])

\* config.read(config_file) when the file exists
ReadConfig(file) == IF file.exists THEN file.content ELSE <<>>

\* the document _update_config_file(profile_name) writes
UpdatedConfig(file, profile_name) ==
    LET settings == SsoSettings(profile_name)
        withDefault == SetSection(ReadConfig(file), DefaultSection, settings)
    IN  SetSection(withDefault, ProfileSection(profile_name), settings)

\* setup_profiles' loop body for the role: update_profile, which calls
\* _update_config_file
UpdateProfile ==
    /\ upserts < MaxUpserts
    /\ config_prev' = config_file
    /\ config_file' = File(UpdatedConfig(config_file, ProfileName(role[1], role[2])))
    /\ upserts' = upserts + 1
    /\ UNCHANGED <<sso_start_url, role>>
    /\ UNCHANGED shellVars
    /\ UNCHANGED runVars

NoWrite == [target |-> "none"]

NoHistory ==
    [ roles_failed |-> FALSE, upsert_log |-> <<>>,
      bash |-> "not_run", powershell |-> "not_run", cmd |-> "not_run",
      checks |-> <<>>, logins |-> <<>>, result |-> "none" ]

\* no run of main() is under way
NoRun ==
    /\ pc = "idle"
    /\ missing = "none"
    /\ available_roles = <<>>
    /\ role_idx = 1
    /\ profile_names = <<>>
    /\ pending = NoWrite
    /\ faults = 0
    /\ exit_status = "running"
    /\ registry = "unset"
    /\ pre = [bashrc |-> NoFile, ps_profile |-> NoFile,
              config_file |-> NoFile, registry |-> "unset"]
    /\ hist = NoHistory

(***************************************************************************)
(* Initial AWS CLI config, SSO start URL and role                          *)
(***************************************************************************)
Strings(chars, lo, hi) == UNION { [1..n -> chars] : n \in lo..hi }

Roles == Strings({"1", "-"}, 1, MaxNameLen) \X Strings({"A", "-"}, 1, MaxNameLen)

Urls == Strings({"h", "/", "#"}, 0, MaxUrlLen)

\* what a section may hold before the run: the six keys with other values, a
\* key the tool never writes, or both
OldOptions ==
    LET old == [ sso_start_url |-> <<"h">>, sso_region |-> <<"us-west-2">>,
                 sso_account_id |-> <<"9">>, sso_role_name |-> <<"Z">>,
                 region |-> <<"us-west-2">>, output |-> <<"text">> ]
        extra == [ cli_pager |-> <<>> ]
    IN  { old, extra,
          [ k \in DOMAIN old \cup DOMAIN extra |->
              IF k \in DOMAIN old THEN old[k] ELSE extra[k] ] }

OldSections(r) ==
    { [name |-> n, options |-> o] :
        n \in { DefaultSection,
                ProfileSection(ProfileName(r[1], r[2])),
                ProfileSection(<<"d", "e", "v">>) },
        o \in OldOptions }

OldConfigs(r) ==
    {NoFile} \cup
    { File(c) : c \in {<<>>} \cup { <<x>> : x \in OldSections(r) }
                       \cup { p \in OldSections(r) \X OldSections(r) :
                                 p[1].name # p[2].name } }

\* every role beside every old config, or every URL
InitConfig ==
    /\ \/ /\ role \in Roles
          /\ sso_start_url = <<"h", "/">>
          /\ config_file \in OldConfigs(role)
       \/ /\ role = << <<"1">>, <<"A">> >>
          /\ sso_start_url \in Urls
          /\ config_file = NoFile
    /\ config_prev = config_file
    /\ upserts = 0
    /\ bashrc = NoFile
    /\ bash_prev = NoFile
    /\ ps_profile = NoFile
    /\ ps_prev = NoFile
    /\ ps_orig = NoFile
    /\ step = "bash"
    /\ runs = 0
    /\ NoRun

NextConfig == UpdateProfile

SpecConfig == InitConfig /\ [][NextConfig]_vars

(***************************************************************************)
(* Initial shell profiles: every file of at most MaxLines lines over the   *)
(* kinds of line the merges tell apart, beside a fixed file for the other  *)
(* shell                                                                   *)
(***************************************************************************)
UserLine == <<"PATH=$HOME/bin:$PATH">>

BashLineKinds ==
    { <<>>, <<"    ">>,
      aws_export,
      ExportPrefix \o <<"dev">>,
      <<"    ">> \o ExportPrefix \o <<"dev">>,
      <<"# ">> \o aws_export,
      clear_aws_alias,
      UserLine }

PsUserLine == <<"Set-Alias ll Get-ChildItem">>

PsLineKinds ==
    { <<>>,
      aws_env,
      EnvName \o <<" = '", "dev", "'">>,
      clear_aws_function[1],
      clear_aws_function[3],
      clear_aws_function[5],
      PsUserLine }

Contents(kinds) ==
    UNION { [1..n -> kinds] : n \in 1..MaxLines }

BashEdited ==
    << <<"# ">> \o aws_export, <<>>, <<>>, ExportPrefix \o <<"dev">>,
       UserLine, aws_export, clear_aws_alias >>

PsEdited ==
    << PsUserLine, <<>>, EnvName \o <<" = '", "dev", "'">>, <<>>,
       clear_aws_function[1], clear_aws_function[2], clear_aws_function[3],
       clear_aws_function[4], clear_aws_function[5], <<>>, <<>>, PsUserLine >>

InitShellFiles ==
    \/ /\ bashrc \in {NoFile} \cup { File(c) : c \in Contents(BashLineKinds) }
       /\ ps_profile \in {NoFile, File(PsEdited)}
    \/ /\ bashrc \in {NoFile, File(BashEdited)}
       /\ ps_profile \in {NoFile} \cup { File(c) : c \in Contents(PsLineKinds) }

Init ==
    /\ InitShellFiles
    /\ bash_prev = bashrc
    /\ ps_prev = ps_profile
    /\ ps_orig = ps_profile
    /\ step = "bash"
    /\ runs = 0
    /\ config_file = NoFile
    /\ config_prev = NoFile
    /\ sso_start_url = <<>>
    /\ role = << <<>>, <<>> >>
    /\ upserts = 0
    /\ NoRun

Next ==
    \/ SetupBashProfile
    \/ SetupPowershellProfile

Spec == Init /\ [][Next]_vars

\* merges done so far
BashRuns == runs + (IF step = "powershell" THEN 1 ELSE 0)
PsRuns == runs

(***************************************************************************)
(* A run of main(): AWSSSOManager(config_file), then run()                 *)
(*                                                                         *)
(* A target file is written in two steps, as open(path, 'w') and then      *)
(* write and close do it: the open truncates the file, the close leaves    *)
(* the new content.  A fault is a failure of the environment (an           *)
(* unreadable or unparsable file, a refused open, a failed write, a failed *)
(* external command); at most MaxFaults happen in a run.                   *)
(***************************************************************************)
keptVars == <<bash_prev, ps_prev, ps_orig, step, runs, config_prev,
              sso_start_url, upserts, missing, available_roles, pre>>

targetVars == <<bashrc, ps_profile, config_file, registry>>

\* the keys AWSConfig reads from sso_config.ini
SettingKeys ==
    {"sso_profile", "sso_start_url", "sso_region", "default_region",
     "output_format", "aws_folder_name", "config_file", "credentials_file",
     "sso_cache_folder"}

\* the settings both ensure_sso_profile_exists and _update_config_file copy
SectionKeys == {"sso_start_url", "sso_region", "default_region", "output_format"}

SsoProfileSection == <<"profile ", "sso-login">>

\* the dict of lines 221-226
LoginSettings ==
    [ sso_start_url |-> sso_start_url, sso_region |-> sso_region,
      region |-> default_region, output |-> output_format ]

\* an exception that reaches run()'s handler, or leaves main(): exit status 1
Abort ==
    /\ pc' = "exited"
    /\ exit_status' = "nonzero"

Fault ==
    /\ faults < MaxFaults
    /\ faults' = faults + 1

Truncated(target) ==
    IF target = "config_file" THEN File(<<>>) ELSE File(EmptyContent)

Target(target) ==
    CASE target = "bashrc" -> bashrc
      [] target = "ps_profile" -> ps_profile
      [] target = "config_file" -> config_file

SetTarget(target, file) ==
    /\ bashrc' = IF target = "bashrc" THEN file ELSE bashrc
    /\ ps_profile' = IF target = "ps_profile" THEN file ELSE ps_profile
    /\ config_file' = IF target = "config_file" THEN file ELSE config_file
    /\ UNCHANGED registry

BeginWrite(owner, target, content) ==
    /\ pending' = [target |-> target, owner |-> owner, content |-> content,
                   before |-> Target(target)]
    /\ pc' = "open"

\* mutant: a failed upsert ends setup_profiles' loop
UpsertDoneBreak(ok) ==
    /\ hist' = [hist EXCEPT !.upsert_log = Append(@, [role |-> role', ok |-> ok])]
    /\ role_idx' = IF ok THEN role_idx + 1 ELSE Len(available_roles) + 1
    /\ pc' = "profiles"

\* setup_profiles' except clause and the next iteration (lines 280-281)
UpsertDone(ok) ==
    /\ hist' = [hist EXCEPT !.upsert_log = Append(@, [role |-> role', ok |-> ok])]
    /\ role_idx' = role_idx + 1
    /\ pc' = "profiles"

\* where the code goes on once the with-block of a write is left
FinishWrite(ok, status) ==
    /\ pending' = NoWrite
    /\ CASE pending.owner = "ensure" ->
              /\ IF ok THEN pc' = "login" /\ UNCHANGED exit_status ELSE Abort
              /\ UNCHANGED <<hist, role_idx>>
         [] pending.owner = "upsert" ->
              /\ UpsertDone(ok)
              /\ UNCHANGED exit_status
         [] pending.owner = "bash" ->
              /\ pc' = "powershell"
              /\ hist' = [hist EXCEPT !.bash = status]
              /\ UNCHANGED <<exit_status, role_idx>>
         [] pending.owner = "powershell" ->
              /\ pc' = "cmd"
              /\ hist' = [hist EXCEPT !.powershell = status]
              /\ UNCHANGED <<exit_status, role_idx>>

\* AWSSSOManager.__init__: AWSConfig._load_config, AWSPathManager._find_aws_folder
StartRun ==
    /\ pc = "start"
    /\ IF missing \in {"file", "aws_folder_name"}
       THEN Abort
       ELSE pc' = "ensure" /\ UNCHANGED exit_status
    /\ UNCHANGED <<targetVars, keptVars, role, role_idx, profile_names,
                   pending, faults, hist>>

\* login() calls ensure_sso_profile_exists first
EnsureSsoProfile ==
    /\ pc = "ensure"
    /\ UNCHANGED <<targetVars, keptVars, role, role_idx, profile_names, hist>>
    /\ \/ /\ missing \in {"config_file", "sso_profile"}
          /\ Abort
          /\ UNCHANGED <<pending, faults>>
       \/ /\ missing \notin {"config_file", "sso_profile"}
          /\ config_file.exists
          /\ Fault
          /\ Abort
          /\ UNCHANGED pending
       \/ /\ missing \notin {"config_file", "sso_profile"}
          /\ UNCHANGED faults
          /\ IF HasSection(ReadConfig(config_file), SsoProfileSection)
             THEN pc' = "login" /\ UNCHANGED <<exit_status, pending>>
             ELSE IF missing \in SectionKeys
                  THEN Abort /\ UNCHANGED pending
                  ELSE /\ BeginWrite("ensure", "config_file",
                                     SetSection(ReadConfig(config_file),
                                                SsoProfileSection, LoginSettings))
                       /\ UNCHANGED exit_status

\* open(path, 'w')
OpenForWrite ==
    /\ pc = "open"
    /\ UNCHANGED <<keptVars, role, profile_names>>
    /\ \/ /\ Fault
          /\ FinishWrite(FALSE, "open_failed")
          /\ UNCHANGED targetVars
       \/ /\ SetTarget(pending.target, Truncated(pending.target))
          /\ pc' = "write"
          /\ UNCHANGED <<pending, faults, hist, role_idx, exit_status>>

\* f.write(...) / config.write(f), and the close that ends the with-block
WriteAndClose ==
    /\ pc = "write"
    /\ UNCHANGED <<keptVars, role, profile_names>>
    /\ \/ /\ Fault
          /\ FinishWrite(FALSE, "write_failed")
          /\ UNCHANGED targetVars
       \/ /\ SetTarget(pending.target, File(pending.content))
          /\ FinishWrite(TRUE, "written")
          /\ UNCHANGED faults

\* the process is ended while a target file is open for writing
Interrupt ==
    /\ pc \in {"open", "write"}
    /\ pc' = "killed"
    /\ exit_status' = "nonzero"
    /\ UNCHANGED <<targetVars, keptVars, role, role_idx, profile_names,
                   pending, faults, hist>>

\* aws sso login --profile <sso_profile>
Login ==
    /\ pc = "login"
    /\ UNCHANGED <<targetVars, keptVars, role, role_idx, profile_names,
                   pending, hist>>
    /\ \/ pc' = "roles" /\ UNCHANGED <<exit_status, faults>>
       \/ Fault /\ Abort

GetAvailableRoles ==
    /\ pc = "roles"
    /\ UNCHANGED <<targetVars, keptVars, role, role_idx, profile_names, pending>>
    /\ \/ /\ missing \in {"sso_cache_folder", "sso_region"}
          /\ Abort
          /\ hist' = [hist EXCEPT !.roles_failed = TRUE]
          /\ UNCHANGED faults
       \/ /\ missing \notin {"sso_cache_folder", "sso_region"}
          /\ Fault
          /\ Abort
          /\ hist' = [hist EXCEPT !.roles_failed = TRUE]
       \/ /\ missing \notin {"sso_cache_folder", "sso_region"}
          /\ pc' = "setup_profiles"
          /\ UNCHANGED <<exit_status, faults, hist>>

\* setup_profiles before its loop (lines 268-271)
SetupProfilesBegin ==
    /\ pc = "setup_profiles"
    /\ UNCHANGED <<targetVars, keptVars, role, pending, hist>>
    /\ \/ /\ pc' = "profiles"
          /\ role_idx' = 1
          /\ profile_names' = <<>>
          /\ UNCHANGED <<exit_status, faults>>
       \/ /\ Fault
          /\ Abort
          /\ UNCHANGED <<role_idx, profile_names>>

\* one iteration of setup_profiles' loop, up to the open of the config file
SetupProfile ==
    /\ pc = "profiles"
    /\ role_idx <= Len(available_roles)
    /\ role' = available_roles[role_idx]
    /\ profile_names' = Append(profile_names, ProfileName(role'[1], role'[2]))
    /\ UNCHANGED <<targetVars, keptVars, exit_status>>
    /\ \/ /\ config_file.exists
          /\ Fault
          /\ UpsertDone(FALSE)
          /\ UNCHANGED pending
       \/ /\ missing \in SectionKeys
          /\ UpsertDone(FALSE)
          /\ UNCHANGED <<pending, faults>>
       \/ /\ missing \notin SectionKeys
          /\ BeginWrite("upsert", "config_file",
                        UpdatedConfig(config_file, ProfileName(role'[1], role'[2])))
          /\ UNCHANGED <<faults, hist, role_idx>>

\* setup_profiles returns; setup_global_profile (lines 333-338)
SetupGlobalProfile ==
    /\ pc = "profiles"
    /\ role_idx > Len(available_roles)
    /\ pc' = IF profile_names = <<>> THEN "verify" ELSE "bash"
    /\ UNCHANGED <<targetVars, keptVars, role, role_idx, profile_names,
                   pending, faults, exit_status, hist>>

\* _setup_bash_profile up to the open for writing
BashProfileRead ==
    /\ pc = "bash"
    /\ UNCHANGED <<targetVars, keptVars, role, role_idx, profile_names, exit_status>>
    /\ \/ /\ bashrc.exists
          /\ Fault
          /\ hist' = [hist EXCEPT !.bash = "read_failed"]
          /\ pc' = "powershell"
          /\ UNCHANGED pending
       \/ /\ BeginWrite("bash", "bashrc", BashMerge(bashrc))
          /\ UNCHANGED <<faults, hist>>

\* _setup_powershell_profile up to the open for writing; the mkdir of line
\* 411 may fail whether or not the profile file exists
PowershellProfileRead ==
    /\ pc = "powershell"
    /\ UNCHANGED <<targetVars, keptVars, role, role_idx, profile_names, exit_status>>
    /\ \/ /\ Fault
          /\ hist' = [hist EXCEPT !.powershell = "read_failed"]
          /\ pc' = "cmd"
          /\ UNCHANGED pending
       \/ /\ BeginWrite("powershell", "ps_profile", PsMerge(ps_profile))
          /\ UNCHANGED <<faults, hist>>

\* _setup_cmd_profile: winreg may be missing, the key may not open
CmdProfile ==
    /\ pc = "cmd"
    /\ pc' = "verify"
    /\ UNCHANGED <<bashrc, ps_profile, config_file, keptVars, role, role_idx,
                   profile_names, pending, faults, exit_status>>
    /\ \/ /\ hist' = [hist EXCEPT !.cmd = "failed"]
          /\ UNCHANGED registry
       \/ /\ hist' = [hist EXCEPT !.cmd = "written"]
          /\ registry' = default_profile

\* mutant: the first failed identity check is terminal
VerifyFirstTerminal(outcome) ==
    IF outcome = "ok" THEN [pc |-> "display", result |-> "true"]
    ELSE [pc |-> "display", result |-> "false"]

\* verify_credentials, lines 303-313 and 327-329
VerifyFirstNext(outcome) ==
    CASE outcome = "ok" -> [pc |-> "display", result |-> "true"]
      [] outcome = "failed" -> [pc |-> "relogin", result |-> "none"]
      [] outcome = "garbled" -> [pc |-> "display", result |-> "false"]

VerifyFirst ==
    /\ pc = "verify"
    /\ \E outcome \in {"ok", "failed", "garbled"} :
          /\ hist' = [hist EXCEPT !.checks = Append(@, outcome),
                                  !.result = VerifyFirstNext(outcome).result]
          /\ pc' = VerifyFirstNext(outcome).pc
    /\ UNCHANGED <<targetVars, keptVars, role, role_idx, profile_names,
                   pending, faults, exit_status>>

\* aws sso login --profile default (line 316)
ReLogin ==
    /\ pc = "relogin"
    /\ \E outcome \in {"ok", "failed"} :
          /\ hist' = [hist EXCEPT !.logins = Append(@, outcome),
                                  !.result = IF outcome = "ok" THEN @ ELSE "false"]
          /\ pc' = IF outcome = "ok" THEN "verify2" ELSE "display"
    /\ UNCHANGED <<targetVars, keptVars, role, role_idx, profile_names,
                   pending, faults, exit_status>>

\* lines 317-326; an output that is no JSON raises out of the handler
VerifySecond ==
    /\ pc = "verify2"
    /\ UNCHANGED <<targetVars, keptVars, role, role_idx, profile_names,
                   pending, faults>>
    /\ \/ /\ hist' = [hist EXCEPT !.checks = Append(@, "ok"), !.result = "true"]
          /\ pc' = "display"
          /\ UNCHANGED exit_status
       \/ /\ hist' = [hist EXCEPT !.checks = Append(@, "failed"), !.result = "false"]
          /\ pc' = "display"
          /\ UNCHANGED exit_status
       \/ /\ hist' = [hist EXCEPT !.checks = Append(@, "garbled")]
          /\ Abort

\* display_console_urls, display_profile_commands, and the end of run()
Display ==
    /\ pc = "display"
    /\ IF available_roles # <<>> /\ missing = "sso_start_url"
       THEN Abort
       ELSE pc' = "done" /\ exit_status' = "zero"
    /\ UNCHANGED <<targetVars, keptVars, role, role_idx, profile_names,
                   pending, faults, hist>>

(***************************************************************************)
(* What a run may find                                                     *)
(***************************************************************************)
RunRoles ==
    { << <<"1">>, <<"A">> >>, << <<"1">>, <<"B">> >>,
      << <<"2">>, <<"B", "-", "C">> >> }

\* the portal lists a role of an account once
RoleLists ==
    UNION { { l \in [1..n -> RunRoles] :
                \A j, k \in 1..n : l[j] = l[k] => j = k } : n \in 0..MaxRoles }

RunConfigs ==
    LET login == [name |-> SsoProfileSection, options |-> LoginSettings]
        old == [name |-> DefaultSection,
                options |-> [sso_account_id |-> <<"9">>, cli_pager |-> <<>>]]
    IN  {NoFile, File(<<login>>), File(<<old, login>>)}

InitRun ==
    /\ pc = "start"
    /\ missing \in {"none", "file"} \cup SettingKeys
    /\ available_roles \in RoleLists
    /\ sso_start_url = <<"h", "/">>
    /\ config_file \in RunConfigs
    /\ \/ bashrc = NoFile /\ ps_profile = NoFile
       \/ bashrc = File(BashEdited) /\ ps_profile = File(PsEdited)
    /\ registry = "unset"
    /\ pre = [bashrc |-> bashrc, ps_profile |-> ps_profile,
              config_file |-> config_file, registry |-> registry]
    /\ role = << <<>>, <<>> >>
    /\ role_idx = 1
    /\ profile_names = <<>>
    /\ pending = NoWrite
    /\ faults = 0
    /\ exit_status = "running"
    /\ hist = NoHistory
    /\ bash_prev = bashrc
    /\ ps_prev = ps_profile
    /\ ps_orig = ps_profile
    /\ config_prev = config_file
    /\ step = "bash"
    /\ runs = 0
    /\ upserts = 0

NextRun ==
    \/ StartRun
    \/ EnsureSsoProfile
    \/ OpenForWrite
    \/ WriteAndClose
    \/ Interrupt
    \/ Login
    \/ GetAvailableRoles
    \/ SetupProfilesBegin
    \/ SetupProfile
    \/ SetupGlobalProfile
    \/ BashProfileRead
    \/ PowershellProfileRead
    \/ CmdProfile
    \/ VerifyFirst
    \/ ReLogin
    \/ VerifySecond
    \/ Display

SpecRun == InitRun /\ [][NextRun]_vars

(***************************************************************************)
(* Line predicates the properties use                                      *)
(***************************************************************************)
IsBlank(line) == strip(line) = <<>>

\* an occurrence of the environment-assignment directive in .bashrc
IsExportLine(line) == ~IsBlank(line) /\ startswith(strip(line), ExportPrefix)

\* an occurrence of the environment-assignment directive in the PowerShell
\* profile
IsEnvLine(line) == ~IsBlank(line) /\ contains(line, EnvName)

BashOther(line) == ~IsBlank(line) /\ ~IsExportLine(line)
PsOther(line) == ~IsBlank(line) /\ ~IsEnvLine(line)

LinesOf(file) == SplitLines(ReadContent(file))

NoBlankRun(lines) ==
    \A i \in 1..(Len(lines) - 1) : ~(IsBlank(lines[i]) /\ IsBlank(lines[i + 1]))

\* s can be had from t by deleting elements of t
RECURSIVE IsSubSeq(_, _)
IsSubSeq(s, t) ==
    IF s = <<>> THEN TRUE
    ELSE IF t = <<>> THEN FALSE
    ELSE IF Head(s) = Head(t) THEN IsSubSeq(Tail(s), Tail(t))
    ELSE IsSubSeq(s, Tail(t))

(***************************************************************************)
(* Properties of the shell profile merges                                  *)
(***************************************************************************)

\* C1: the Bash merge is idempotent: a second merge with no edit in between
\* writes exactly the lines the first merge wrote.
C1_BashMergeIdempotent ==
    BashRuns >= 2 => bashrc = bash_prev

\* C2: the PowerShell merge is idempotent, its Clear-AWS block included: a
\* second merge writes exactly the lines the first merge wrote.
C2_PsMergeIdempotent ==
    PsRuns >= 2 => ps_profile = ps_prev

\* C3: after one or more PowerShell merges that started from an absent or
\* empty profile, the file holds exactly one Clear-AWS block, made of the five
\* lines of clear_aws_function in order, and exactly one assignment line
\* outside that block.
C3_PsOneAssignmentOneFullBlock ==
    (PsRuns >= 1 /\ ps_orig \in {NoFile, File(EmptyContent)}) =>
        LET lines == LinesOf(ps_profile)
            starts == { i \in 1..Len(lines) : contains(lines[i], FunctionName) }
        IN  /\ Cardinality(starts) = 1
            /\ LET i == SetMin(starts)
               IN  /\ i + 4 <= Len(lines)
                   /\ SubSeq(lines, i, i + 4) = clear_aws_function
                   /\ Cardinality({ k \in (1..Len(lines)) \ (i..(i + 4)) :
                                        IsEnvLine(lines[k]) }) = 1

\* C4: after a Bash merge the file holds the clear_aws alias line at most
\* once, whatever the file held before.
C4_AliasAtMostOnce ==
    BashRuns >= 1 =>
        LET out == LinesOf(bashrc)
        IN  Cardinality({ i \in 1..Len(out) : out[i] = clear_aws_alias }) <= 1

\* C5: after a Bash merge exactly one line is an export of
\* AWS_DEFAULT_PROFILE, it is the canonical line, and it stands where the
\* first such line of the input stood among the other non-blank lines; with no
\* such line in the input it follows every input line and only the appended
\* alias can follow it.
C5_ExportOnceInPlace ==
    BashRuns >= 1 =>
        LET in == LinesOf(bash_prev)
            out == LinesOf(bashrc)
            inIdx == { i \in 1..Len(in) : IsExportLine(in[i]) }
            outIdx == { j \in 1..Len(out) : IsExportLine(out[j]) }
        IN  /\ Cardinality(outIdx) = 1
            /\ LET j == SetMin(outIdx)
                   before == SelectSeq(SubSeq(out, 1, j - 1), BashOther)
                   after == SelectSeq(SubSeq(out, j + 1, Len(out)), BashOther)
               IN  /\ out[j] = aws_export
                   /\ IF inIdx # {}
                      THEN LET i == SetMin(inIdx)
                               inAfter == SelectSeq(SubSeq(in, i + 1, Len(in)),
                                                    BashOther)
                           IN  /\ before = SelectSeq(SubSeq(in, 1, i - 1), BashOther)
                               /\ after \in {inAfter, Append(inAfter, clear_aws_alias)}
                      ELSE /\ before = SelectSeq(in, BashOther)
                           /\ SubSeq(out, j + 1, Len(out)) \in {<<>>, <<clear_aws_alias>>}

\* C5 witness: a merge has run on a file that held two export lines with
\* other lines before and after the first of them.
C5_Witness ==
    /\ BashRuns >= 1
    /\ LET in == LinesOf(bash_prev)
       IN  \E i, j, k, l \in 1..Len(in) :
               /\ i < j /\ j < k /\ k < l
               /\ BashOther(in[i]) /\ IsExportLine(in[j])
               /\ BashOther(in[k]) /\ IsExportLine(in[l])
               /\ in[j] # aws_export

\* C6: a file written by either merge holds no two consecutive blank lines.
C6_NoBlankRunAfterMerge ==
    /\ BashRuns >= 1 => NoBlankRun(LinesOf(bashrc))
    /\ PsRuns >= 1 => NoBlankRun(LinesOf(ps_profile))

SectionsNamed(file, name) ==
    { i \in 1..Len(ReadConfig(file)) : ReadConfig(file)[i].name = name }

SixKeys ==
    {"sso_start_url", "sso_region", "sso_account_id", "sso_role_name",
     "region", "output"}

\* C8: for a role whose account id holds no '-', the account id and the role
\* name that _update_config_file splits out of the profile name, and writes
\* to both sections, are the account id and role name the name was built from.
C8_ProfileNameRoundTrip ==
    (upserts >= 1 /\ FirstIndex(role[1], "-") = 0) =>
        \A i \in 1..Len(ReadConfig(config_file)) :
            LET sec == ReadConfig(config_file)[i]
            IN  sec.name \in {DefaultSection,
                              ProfileSection(ProfileName(role[1], role[2]))} =>
                    /\ sec.options.sso_account_id = role[1]
                    /\ sec.options.sso_role_name = role[2]

\* C8 witness: an upsert was done for a role whose name holds '-' and whose
\* account id holds none.
C8_Witness ==
    /\ upserts >= 1
    /\ FirstIndex(role[1], "-") = 0
    /\ FirstIndex(role[2], "-") > 1
    /\ Len(role[2]) > FirstIndex(role[2], "-")

\* C9: the SSO start URL written to the config ends with "/#" and normalizing
\* it again returns it unchanged.
C9_UrlNormalizeIdempotent ==
    upserts >= 1 =>
        \A i \in SectionsNamed(config_file, DefaultSection) :
            LET written == ReadConfig(config_file)[i].options.sso_start_url
            IN  /\ written = NormalizeUrl(sso_start_url)
                /\ endswith(written, <<"/", "#">>)
                /\ NormalizeUrl(written) = written

\* C9 witness: an upsert was done with a configured URL that ended with
\* slashes to strip, and wrote another URL than the configured one.
C9_Witness ==
    /\ upserts >= 1
    /\ sso_start_url = <<"h", "/", "/">>
    /\ \E i \in SectionsNamed(config_file, DefaultSection) :
           ReadConfig(config_file)[i].options.sso_start_url = <<"h", "/", "#">>

\* C10: after an upsert the config holds exactly one section 'default' and
\* exactly one section 'profile <name>', each with exactly the six SSO keys
\* and the new values, whatever the sections held before; a second upsert of
\* the same role leaves the config as the first one left it.
C10_UpsertOverwritesWholesale ==
    upserts >= 1 =>
        LET profile_name == ProfileName(role[1], role[2])
            config == ReadConfig(config_file)
        IN  /\ \A name \in {DefaultSection, ProfileSection(profile_name)} :
                  /\ Cardinality(SectionsNamed(config_file, name)) = 1
                  /\ \A i \in SectionsNamed(config_file, name) :
                         /\ DOMAIN config[i].options = SixKeys
                         /\ config[i].options = SsoSettings(profile_name)
            /\ upserts >= 2 => config_file = config_prev

\* C10 witness: the second upsert of a role was done on a config whose
\* 'default' and 'profile <name>' sections both existed before the first one,
\* with a key the tool does not write.
C10_Witness ==
    /\ upserts = 1
    /\ \A name \in {DefaultSection, ProfileSection(ProfileName(role[1], role[2]))} :
           \E i \in SectionsNamed(config_prev, name) :
               "cli_pager" \in DOMAIN ReadConfig(config_prev)[i].options

(***************************************************************************)
(* Properties of a run                                                     *)
(***************************************************************************)
TargetsUntouched ==
    /\ bashrc = pre.bashrc
    /\ ps_profile = pre.ps_profile
    /\ config_file = pre.config_file
    /\ registry = pre.registry

\* the settings some step of a run reads
RequiredSettings == {"file"} \cup (SettingKeys \ {"credentials_file"})

\* setup_profiles has returned and the run has not been interrupted
AfterProfiles ==
    \/ pc \in {"bash", "powershell", "cmd", "verify", "relogin", "verify2",
               "display", "done"}
    \/ pc = "profiles" /\ role_idx > Len(available_roles)
    \/ pc \in {"open", "write"} /\ pending.owner \in {"bash", "powershell"}

\* setup_global_profile has returned
AfterShellStep == pc \in {"verify", "relogin", "verify2", "display", "done"}

FailedStatus == {"read_failed", "open_failed", "write_failed"}

\* C11: when the settings file is missing, or lacks a key the run reads, no
\* target (AWS CLI config, .bashrc, PowerShell profile, registry) is ever
\* changed by the run, whatever the targets held before it.
C11_AbortsBeforeMutation ==
    missing \in RequiredSettings => TargetsUntouched

\* C12: when the run is interrupted while a target file is being written, the
\* file holds what it held before the run, or before this write, or the
\* complete new content.
C12_CrashSafeWrite ==
    pc = "killed" =>
        Target(pending.target) \in
            {pre[pending.target], pending.before, File(pending.content)}

\* C13: once setup_profiles has returned, every role of the list has had its
\* upsert attempted, in order, whichever of them failed; with a non-empty list
\* the run does not reach verification without having run the three shell
\* adapters; and when the role list could not be obtained the run has ended
\* with a non-zero exit status, with no upsert and no adapter run.
C13_FailurePolicy ==
    /\ AfterProfiles =>
          /\ Len(hist.upsert_log) = Len(available_roles)
          /\ \A k \in 1..Len(available_roles) :
                 hist.upsert_log[k].role = available_roles[k]
    /\ (AfterShellStep /\ available_roles # <<>>) =>
          /\ hist.bash # "not_run"
          /\ hist.powershell # "not_run"
          /\ hist.cmd # "not_run"
    /\ hist.roles_failed =>
          /\ pc = "exited"
          /\ exit_status = "nonzero"
          /\ hist.upsert_log = <<>>
          /\ hist.bash = "not_run"
          /\ hist.powershell = "not_run"
          /\ hist.cmd = "not_run"
          /\ bashrc = pre.bashrc
          /\ ps_profile = pre.ps_profile
          /\ registry = pre.registry

\* C13 witness: a run ended normally in which the upsert of a role that was
\* not the last one failed, a later upsert succeeded, and .bashrc was written.
C13_Witness ==
    /\ pc = "done"
    /\ hist.bash = "written"
    /\ \E k \in 1..Len(hist.upsert_log) :
           /\ ~hist.upsert_log[k].ok
           /\ \E m \in (k + 1)..Len(hist.upsert_log) : hist.upsert_log[m].ok

\* C14: an adapter whose read or write failed has left its target as it was
\* before the run; with a non-empty role list all three adapters have been run
\* once the shell step is over, whichever of them or of the upserts failed;
\* and a failed read of a profile file is not followed by a write to it.
C14_IndependentAdapters ==
    /\ hist.bash \in FailedStatus => bashrc = pre.bashrc
    /\ hist.powershell \in FailedStatus => ps_profile = pre.ps_profile
    /\ hist.cmd = "failed" => registry = pre.registry
    /\ (AfterShellStep /\ available_roles # <<>>) =>
          /\ hist.bash # "not_run"
          /\ hist.powershell # "not_run"
          /\ hist.cmd # "not_run"

\* the part of C14 that is about reads, and about the other adapters running
C14_ReadFailureWritesNothing ==
    /\ hist.bash \in {"read_failed", "open_failed"} => bashrc = pre.bashrc
    /\ hist.powershell \in {"read_failed", "open_failed"} => ps_profile = pre.ps_profile
    /\ hist.cmd = "failed" => registry = pre.registry
    /\ (AfterShellStep /\ available_roles # <<>>) =>
          /\ hist.bash # "not_run"
          /\ hist.powershell # "not_run"
          /\ hist.cmd # "not_run"

\* verify_credentials has returned or raised
AfterVerify ==
    /\ hist.checks # <<>>
    /\ pc \in {"display", "done", "exited"}

Upserted == { k \in 1..Len(hist.upsert_log) : hist.upsert_log[k].ok }

HoldsRole(file, name, r) ==
    \E k \in SectionsNamed(file, name) :
        LET options == ReadConfig(file)[k].options
        IN  /\ {"sso_account_id", "sso_role_name"} \subseteq DOMAIN options
            /\ options.sso_account_id = r[1]
            /\ options.sso_role_name = r[2]

\* C16: once setup_profiles has returned, if some upsert succeeded, 'default'
\* holds the account id and role name of the last role whose upsert
\* succeeded, and every role whose upsert succeeded has its own section
\* 'profile sso-<account id>-<role name>' with its account id and role name.
C16_DefaultIsLastUpserted ==
    (AfterProfiles /\ Upserted # {}) =>
        /\ HoldsRole(config_file, DefaultSection,
                     available_roles[CHOOSE k \in Upserted :
                                         \A m \in Upserted : m <= k])
        /\ \A k \in Upserted :
               HoldsRole(config_file,
                         ProfileSection(ProfileName(available_roles[k][1],
                                                    available_roles[k][2])),
                         available_roles[k])

====
